---- MODULE Spec2Model ----
(***************************************************************************)
(* Model of the utc_offset crate (src/src/lib.rs): a process-wide cache    *)
(* OFFSET : OnceCell<RwLock<UtcOffset>>, the try_set_* writers, the        *)
(* resolver get_utc_offset and the RFC3339 timestamp formatter.            *)
(*                                                                         *)
(* Text is a sequence of one-character strings, so that trimming, parsing  *)
(* and formatting are computed character by character.                     *)
(***************************************************************************)
EXTENDS Integers, Sequences, FiniteSets, TLC

(***************************************************************************)
(* Bounds of the model.                                                    *)
(***************************************************************************)
NumThreads == 2
MaxCalls == 3

Threads == 1..NumThreads

(***************************************************************************)
(* UtcOffset (time crate): hours, minutes, seconds, all of one sign.       *)
(***************************************************************************)
Abs(n) == IF n < 0 THEN -n ELSE n

Off(h, m, s) == [h |-> h, m |-> m, s |-> s]

UTC == Off(0, 0, 0)

\* UtcOffset::from_hms: components out of range are rejected; otherwise the
\* smaller components take the sign of the larger ones.
FromHmsOk(h, m, s) == h \in -23..23 /\ m \in -59..59 /\ s \in -59..59

FromHms(h, m, s) ==
    LET m1 == IF (h > 0 /\ m < 0) \/ (h < 0 /\ m > 0) THEN -m ELSE m
        s1 == IF (h > 0 /\ s < 0) \/ (h < 0 /\ s > 0)
                 \/ (m1 > 0 /\ s < 0) \/ (m1 < 0 /\ s > 0) THEN -s ELSE s
    IN Off(h, m1, s1)

\* UtcOffset::whole_minutes
\* the shift by the whole hours only
WholeMinutes_hours_only(o) == 60 * o.h

WholeMinutes(o) == 60 * o.h + o.m

\* UtcOffset::is_negative
IsNegative(o) == o.h < 0 \/ o.m < 0 \/ o.s < 0

(***************************************************************************)
(* The Error enum.  Every error is a record of one shape; val carries the  *)
(* i8 of InvalidOffsetHours / InvalidOffsetMinutes and is 0 otherwise.     *)
(***************************************************************************)
Error(kind, val) == [kind |-> kind, val |-> val]

NoError == Error("none", 0)
WriteLock == Error("WriteLock", 0)
ParseError == Error("Parse", 0)
TimeError == Error("Time", 0)
TimeCommand == Error("TimeCommand", 0)
InvalidOffsetString == Error("InvalidOffsetString", 0)
DatetimeOverflow == Error("DatetimeOverflow", 0)
Uninitialized == Error("Uninitialized", 0)
\* time::error::IndeterminateOffset, the error of current_local_offset();
\* the crate's Error has no variant for it
IndeterminateOffset == Error("IndeterminateOffset", 0)
InvalidOffsetHours(h) == Error("InvalidOffsetHours", h)
InvalidOffsetMinutes(m) == Error("InvalidOffsetMinutes", m)

(***************************************************************************)
(* Characters.                                                             *)
(***************************************************************************)
Digits == <<"0", "1", "2", "3", "4", "5", "6", "7", "8", "9">>

DigitChar(d) == Digits[d + 1]

IsDigit(c) == \E d \in 0..9 : Digits[d + 1] = c

DigitVal(c) == CHOOSE d \in 0..9 : Digits[d + 1] = c

\* char::is_whitespace, on the characters the model uses
IsWhitespace(c) == c \in {" ", "\t", "\n", "\r"}

Pad2(n) == <<DigitChar((n \div 10) % 10), DigitChar(n % 10)>>

Pad4(n) == Pad2(n \div 100) \o Pad2(n % 100)

\* str::contains
Contains(s, sub) ==
    \E i \in 1..(Len(s) - Len(sub) + 1) : SubSeq(s, i, i + Len(sub) - 1) = sub

(***************************************************************************)
(* trim_new_lines: s.trim().trim_end_matches("\r\n").trim_matches('\n')    *)
(***************************************************************************)
RECURSIVE TrimStart(_)
TrimStart(s) ==
    IF s # <<>> /\ IsWhitespace(Head(s)) THEN TrimStart(Tail(s)) ELSE s

RECURSIVE TrimEnd(_)
TrimEnd(s) ==
    IF s # <<>> /\ IsWhitespace(s[Len(s)])
    THEN TrimEnd(SubSeq(s, 1, Len(s) - 1)) ELSE s

Trim(s) == TrimEnd(TrimStart(s))

RECURSIVE TrimEndCrLf(_)
TrimEndCrLf(s) ==
    IF Len(s) >= 2 /\ s[Len(s) - 1] = "\r" /\ s[Len(s)] = "\n"
    THEN TrimEndCrLf(SubSeq(s, 1, Len(s) - 2)) ELSE s

RECURSIVE TrimStartLf(_)
TrimStartLf(s) ==
    IF s # <<>> /\ Head(s) = "\n" THEN TrimStartLf(Tail(s)) ELSE s

RECURSIVE TrimEndLf(_)
TrimEndLf(s) ==
    IF s # <<>> /\ s[Len(s)] = "\n"
    THEN TrimEndLf(SubSeq(s, 1, Len(s) - 1)) ELSE s

\* the trimming without its first step, trim()
trim_new_lines_no_trim(s) == TrimEndLf(TrimStartLf(TrimEndCrLf(s)))

trim_new_lines(s) == TrimEndLf(TrimStartLf(TrimEndCrLf(Trim(s))))

(***************************************************************************)
(* UtcOffset::parse(input, PARSE_FORMAT) with                              *)
(* PARSE_FORMAT = "[offset_hour][optional [:]][offset_minute]":            *)
(* an optional sign, exactly two digits, an optional colon, exactly two    *)
(* digits, and nothing after them; then from_hms on the parsed numbers.    *)
(* The result is [ok, off].                                                *)
(***************************************************************************)
ParseResult(ok, off) == [ok |-> ok, off |-> off]

TwoDigitsAt(s, i) == Len(s) >= i + 1 /\ IsDigit(s[i]) /\ IsDigit(s[i + 1])

TwoDigitsVal(s, i) == 10 * DigitVal(s[i]) + DigitVal(s[i + 1])

\* a parse that accepts characters after the minutes
ParseOffset_lenient(s) ==
    LET hasSign == s # <<>> /\ s[1] \in {"+", "-"}
        neg == hasSign /\ s[1] = "-"
        hp == IF hasSign THEN 2 ELSE 1
        hasColon == Len(s) >= hp + 2 /\ s[hp + 2] = ":"
        mp == IF hasColon THEN hp + 3 ELSE hp + 2
    IN IF ~TwoDigitsAt(s, hp) THEN ParseResult(FALSE, UTC)
       ELSE IF ~TwoDigitsAt(s, mp) THEN ParseResult(FALSE, UTC)
       ELSE LET hh == TwoDigitsVal(s, hp)
                mm == TwoDigitsVal(s, mp)
                h == IF neg THEN -hh ELSE hh
                m == IF neg THEN -mm ELSE mm
            IN IF FromHmsOk(h, m, 0) THEN ParseResult(TRUE, FromHms(h, m, 0))
               ELSE ParseResult(FALSE, UTC)

ParseOffset(s) ==
    LET hasSign == s # <<>> /\ s[1] \in {"+", "-"}
        neg == hasSign /\ s[1] = "-"
        hp == IF hasSign THEN 2 ELSE 1
        hasColon == Len(s) >= hp + 2 /\ s[hp + 2] = ":"
        mp == IF hasColon THEN hp + 3 ELSE hp + 2
    IN IF ~TwoDigitsAt(s, hp) THEN ParseResult(FALSE, UTC)
       ELSE IF ~TwoDigitsAt(s, mp) THEN ParseResult(FALSE, UTC)
       ELSE IF Len(s) # mp + 1 THEN ParseResult(FALSE, UTC)
       ELSE LET hh == TwoDigitsVal(s, hp)
                mm == TwoDigitsVal(s, mp)
                h == IF neg THEN -hh ELSE hh
                m == IF neg THEN -mm ELSE mm
            IN IF FromHmsOk(h, m, 0) THEN ParseResult(TRUE, FromHms(h, m, 0))
               ELSE ParseResult(FALSE, UTC)

\* parse_cmd_output: from_utf8_lossy, trim_new_lines, UtcOffset::parse
parse_cmd_output(stdout) == ParseOffset(trim_new_lines(stdout))

(***************************************************************************)
(* from_offset_pair: [ok, off, err]                                        *)
(***************************************************************************)
PairResult(ok, off, err) == [ok |-> ok, off |-> off, err |-> err]

\* the validation with the upper bound of the hours off by one
from_offset_pair_hours15(offset_hours, offset_minutes) ==
    IF offset_hours < -12 \/ offset_hours > 15
    THEN PairResult(FALSE, UTC, InvalidOffsetHours(offset_hours))
    ELSE IF ~(offset_minutes \in 0..59)
    THEN PairResult(FALSE, UTC, InvalidOffsetMinutes(offset_minutes))
    ELSE IF FromHmsOk(offset_hours, offset_minutes, 0)
    THEN PairResult(TRUE, FromHms(offset_hours, offset_minutes, 0), NoError)
    ELSE PairResult(FALSE, UTC, TimeError)

from_offset_pair(offset_hours, offset_minutes) ==
    IF offset_hours < -12 \/ offset_hours > 14
    THEN PairResult(FALSE, UTC, InvalidOffsetHours(offset_hours))
    ELSE IF ~(offset_minutes \in 0..59)
    THEN PairResult(FALSE, UTC, InvalidOffsetMinutes(offset_minutes))
    ELSE IF FromHmsOk(offset_hours, offset_minutes, 0)
    THEN PairResult(TRUE, FromHms(offset_hours, offset_minutes, 0), NoError)
    ELSE PairResult(FALSE, UTC, TimeError)

(***************************************************************************)
(* OffsetDateTime: a civil UTC date and time of day.  Dates are counted in *)
(* days of the proleptic Gregorian calendar; the representable years are   *)
(* -9999..9999.                                                            *)
(***************************************************************************)
DateTime(y, mo, d, hh, mi, ss) ==
    [y |-> y, mo |-> mo, d |-> d, hh |-> hh, mi |-> mi, ss |-> ss]

DaysFromCivil(y, mo, d) ==
    LET y1 == IF mo <= 2 THEN y - 1 ELSE y
        era == y1 \div 400
        yoe == y1 - era * 400
        mp == IF mo > 2 THEN mo - 3 ELSE mo + 9
        doy == (153 * mp + 2) \div 5 + d - 1
        doe == yoe * 365 + yoe \div 4 - yoe \div 100 + doy
    IN era * 146097 + doe

CivilFromDays(z) ==
    LET era == z \div 146097
        doe == z - era * 146097
        yoe == (doe - doe \div 1460 + doe \div 36524 - doe \div 146096) \div 365
        doy == doe - (365 * yoe + yoe \div 4 - yoe \div 100)
        mp == (5 * doy + 2) \div 153
        d == doy - (153 * mp + 2) \div 5 + 1
        mo == IF mp < 10 THEN mp + 3 ELSE mp - 9
        y == yoe + era * 400 + (IF mo <= 2 THEN 1 ELSE 0)
    IN [y |-> y, mo |-> mo, d |-> d]

SecondOfDay(dt) == 3600 * dt.hh + 60 * dt.mi + dt.ss

\* an addition that does not check the range
CheckedAddMinutes_unchecked(dt, minutes) ==
    LET secs == SecondOfDay(dt) + 60 * minutes
        days == DaysFromCivil(dt.y, dt.mo, dt.d) + secs \div 86400
        sod == secs % 86400
        c == CivilFromDays(days)
        r == DateTime(c.y, c.mo, c.d, sod \div 3600, (sod \div 60) % 60, sod % 60)
    IN [ok |-> TRUE, dt |-> r]

\* OffsetDateTime::checked_add(Duration::minutes(minutes)): [ok, dt]
CheckedAddMinutes(dt, minutes) ==
    LET secs == SecondOfDay(dt) + 60 * minutes
        days == DaysFromCivil(dt.y, dt.mo, dt.d) + secs \div 86400
        sod == secs % 86400
        c == CivilFromDays(days)
        r == DateTime(c.y, c.mo, c.d, sod \div 3600, (sod \div 60) % 60, sod % 60)
    IN [ok |-> c.y \in -9999..9999, dt |-> r]

\* TIME_FORMAT: "[year]-[month]-[day]T[hour]:[minute]:[second]
\*               [offset_hour sign:mandatory]:[offset_second]"
FormatYear(y) == (IF y < 0 THEN <<"-">> ELSE <<>>) \o Pad4(Abs(y))

FormatOffset(o) ==
    <<IF IsNegative(o) THEN "-" ELSE "+">> \o Pad2(Abs(o.h))
        \o <<":">> \o Pad2(Abs(o.s))

TIME_FORMAT(dt, o) ==
    FormatYear(dt.y) \o <<"-">> \o Pad2(dt.mo) \o <<"-">> \o Pad2(dt.d)
        \o <<"T">> \o Pad2(dt.hh) \o <<":">> \o Pad2(dt.mi) \o <<":">>
        \o Pad2(dt.ss) \o FormatOffset(o)

\* get_local_timestamp_from_offset_rfc3339 at the instant dt_now: [ok, str, err]
TimestampResult(ok, str, err) == [ok |-> ok, str |-> str, err |-> err]

get_local_timestamp_from_offset_rfc3339(utc_offset, dt_now) ==
    IF utc_offset = UTC
    THEN TimestampResult(TRUE, TIME_FORMAT(dt_now, UTC), NoError)
    ELSE LET t == CheckedAddMinutes(dt_now, WholeMinutes(utc_offset))
         IN IF t.ok
            THEN TimestampResult(TRUE, TIME_FORMAT(t.dt, utc_offset), NoError)
            ELSE TimestampResult(FALSE, <<>>, DatetimeOverflow)

(***************************************************************************)
(* The environment of construct_offset: the answer of                      *)
(* UtcOffset::current_local_offset() and of the `date +%z` command.        *)
(***************************************************************************)
NativeAnswer(ok, off) == [ok |-> ok, off |-> off]

CmdAnswer(launched, stdout) == [launched |-> launched, stdout |-> stdout]

\* offset_from_process on the command's answer: [ok, off, err]
offset_from_process(c) ==
    IF c.launched
    THEN LET r == parse_cmd_output(c.stdout)
         IN IF r.ok THEN PairResult(TRUE, r.off, NoError)
            ELSE PairResult(FALSE, UTC, ParseError)
    ELSE PairResult(FALSE, UTC, TimeCommand)

\* the match that falls back to UTC without recording the error
MatchConstruct_silent(r, es) ==
    IF r.ok THEN [o |-> r.off, errs |-> es]
    ELSE [o |-> UTC, errs |-> es]

\* get_utc_offset, the match on construct_offset(): the offset to use and
\* the error list after it
MatchConstruct(r, es) ==
    IF r.ok THEN [o |-> r.off, errs |-> es]
    ELSE [o |-> UTC, errs |-> Append(es, r.err)]

(***************************************************************************)
(* Inputs.  A string input is [str, wf, den]: wf says that str was built   *)
(* as [sign]HH[:]MM with padding, and den is the offset it then denotes.   *)
(***************************************************************************)
StrInput(str, wf, den) == [str |-> str, wf |-> wf, den |-> den]

Denoted(sign, hh, mm) ==
    IF sign = <<"-">> THEN Off(-hh, -mm, 0) ELSE Off(hh, mm, 0)

Build(pre, sign, hh, colon, mm, suf) ==
    pre \o sign \o Pad2(hh) \o colon \o Pad2(mm) \o suf

WellFormed(pres, signs, hhs, colons, mms, sufs) ==
    { StrInput(Build(pre, sign, hh, colon, mm, suf), TRUE, Denoted(sign, hh, mm)) :
        pre \in pres, sign \in signs, hh \in hhs, colon \in colons,
        mm \in mms, suf \in sufs }

Malformed(strs) == { StrInput(str, FALSE, UTC) : str \in strs }

\* The inputs of the concurrent specification: two offsets that differ in
\* every component, and an environment that answers +01:00 or fails.
SetOffsets == {Off(5, 30, 0), Off(-8, 0, 0)}
NativeAnswers == {NativeAnswer(FALSE, UTC), NativeAnswer(TRUE, Off(1, 0, 0))}
CmdAnswers == {CmdAnswer(FALSE, <<>>), CmdAnswer(TRUE, <<"?">>)}

\* The instants of the concurrent timestamp specification: the offset
\* +01:00 leaves the representable range at the second one.
NowsTs == {DateTime(2024, 3, 1, 14, 5, 9), DateTime(9999, 12, 31, 23, 30, 0)}

\* The inputs of the sequential specification.
SetOffsetsSeq ==
    {UTC, Off(5, 30, 0), Off(-8, 0, 0), Off(-9, -30, 0)}
PairInputsSeq ==
    {-128, -13, -12, -8, 0, 5, 14, 15, 127} \X {-128, -1, 0, 30, 59, 60, 127}
StrInputsSeq ==
    WellFormed({<<>>, <<" ">>}, {<<>>, <<"+">>, <<"-">>}, {9, 23},
               {<<>>, <<":">>}, {0, 30}, {<<>>, <<"\n">>, <<"\r", "\n">>})
        \cup Malformed({<<>>, <<"b", "a", "d">>, <<"+", "9", "0", "0">>,
                        <<"0", "9", "6", "0">>, <<"9", "9", "0", "0">>,
                        <<"+", "0", "9", "0", "0", "x">>,
                        <<"0", "9", " ", "0", "0">>,
                        <<"+", "-", "0", "9", "0", "0">>})
NativeAnswersSeq ==
    {NativeAnswer(FALSE, UTC), NativeAnswer(TRUE, Off(1, 0, 0)),
     NativeAnswer(TRUE, Off(-3, -30, 0))}
CmdAnswersSeq ==
    {CmdAnswer(FALSE, <<>>), CmdAnswer(TRUE, <<>>), CmdAnswer(TRUE, <<"?">>),
     CmdAnswer(TRUE, <<"+", "0", "1", "0", "0", "\n">>),
     CmdAnswer(TRUE, <<"-", "0", "8", ":", "0", "0", "\r", "\n">>)}
NowsSeq ==
    {DateTime(2024, 3, 1, 14, 5, 9), DateTime(2023, 12, 31, 23, 59, 59),
     DateTime(9999, 12, 31, 23, 30, 0), DateTime(-9999, 1, 1, 0, 10, 0)}

(***************************************************************************)
(* State.                                                                  *)
(***************************************************************************)
VARIABLES
    OFFSET,     \* the OnceCell: [init, v]; v is the UtcOffset in the RwLock
    writer,     \* the thread holding the write lock, or 0
    readers,    \* the threads holding a read lock
    pc,         \* where each thread is
    op,         \* the public function each thread is running
    o,          \* each thread's local offset (argument, clone or resolved value)
    errs,       \* each thread's Errors list
    call,       \* history: the running call's inputs and what it did so far
    last,       \* history: the call that returned in the latest step, if any
    prev,       \* history: each thread's own last completed call, in brief
    calls,      \* number of calls started
    src,        \* history: who stored the cache's value
    stored      \* history: the last offset stored whole, by get_or_init or a write

vars == <<OFFSET, writer, readers, pc, op, o, errs, call, last, prev, calls,
          src, stored>>

Cell(init, v) == [init |-> init, v |-> v]

Empty == Cell(FALSE, UTC)

SetOps == {"try_set_global_offset", "try_set_global_offset_from_str",
           "try_set_global_offset_from_pair"}

NoCall ==
    [h |-> 0, m |-> 0, wf |-> FALSE, den |-> UTC, arg |-> UTC,
     dt |-> DateTime(0, 0, 0, 0, 0, 0),
     at0 |-> Empty, others |-> FALSE, native |-> 0, command |-> 0,
     nativeErr |-> NoError, cmdErr |-> NoError, resolved |-> UTC,
     busy |-> FALSE, wrote |-> FALSE, clean |-> FALSE]

Res(ok, err, off, out) == [ok |-> ok, err |-> err, off |-> off, out |-> out]

NoRes == Res(FALSE, NoError, UTC, <<>>)

\* what a thread keeps of its last completed call
Brief(opname, c, res) ==
    IF opname \in {"try_set_global_offset_from_pair", "get_utc_offset"} /\ res.ok
    THEN [op |-> opname, off |-> res.off, h |-> c.h, m |-> c.m, clean |-> c.clean]
    ELSE [op |-> "none", off |-> UTC, h |-> 0, m |-> 0, clean |-> FALSE]

NoPrev == Brief("none", NoCall, NoRes)

\* the record of a completed call of thread t; before is the thread's call
\* before it, now is the cache at the return
Done(t, opname, c, res, es, before, now) ==
    [t |-> t, op |-> opname, ok |-> res.ok, err |-> res.err, off |-> res.off,
     out |-> res.out, errs |-> es, before |-> before, now |-> now] @@ c

NoLast == Done(0, "none", NoCall, NoRes, <<>>, NoPrev, Empty)

\* a call starts: the cache as it is, and whether no explicit set is running
NewCall(t) ==
    [NoCall EXCEPT
        !.at0 = OFFSET,
        !.clean = \A u \in Threads \ {t} : op[u] \notin SetOps]

\* One step of thread t in the function opname, to newpc or (newpc = "idle")
\* to the function's return with res.  starts: the step is the call's first.
\* The other threads' histories see a change of the cache and the start of
\* an explicit set.
Step(t, opname, starts, newpc, newo, es, c, res) ==
    LET startsSet == starts /\ opname \in SetOps
        returns == newpc = "idle"
    IN /\ pc' = [pc EXCEPT ![t] = newpc]
       /\ calls' = IF starts THEN calls + 1 ELSE calls
       /\ op' = [op EXCEPT ![t] = IF returns THEN "none" ELSE opname]
       /\ o' = [o EXCEPT ![t] = IF returns THEN UTC ELSE newo]
       /\ errs' = [errs EXCEPT ![t] = IF returns THEN <<>> ELSE es]
       /\ call' = [u \in Threads |->
                     IF u = t THEN (IF returns THEN NoCall ELSE c)
                     ELSE [call[u] EXCEPT
                             !.others = @ \/ (OFFSET' # OFFSET /\ pc[u] # "idle"),
                             !.clean = @ /\ ~startsSet]]
       /\ prev' = [u \in Threads |->
                     IF u = t /\ returns THEN Brief(opname, c, res)
                     ELSE [prev[u] EXCEPT !.clean = @ /\ ~startsSet]]
       /\ last' = IF returns THEN Done(t, opname, c, res, es, prev[t], OFFSET')
                  ELSE NoLast

\* a thread may start a call, once the record of the call that returned
\* before has been put away
Idle(t) == pc[t] = "idle" /\ calls < MaxCalls /\ last = NoLast

\* history only: the record of the call that returned is put away
Forget ==
    /\ last # NoLast
    /\ last' = NoLast
    /\ UNCHANGED <<OFFSET, writer, readers, pc, op, o, errs, call, prev, calls,
                   src, stored>>

\* where a call goes on after get_utc_offset, and after try_set_global_offset
AfterResolve(opname) ==
    IF opname = "get_local_timestamp_rfc3339" THEN "format" ELSE "idle"

AfterSet(opname) ==
    IF opname \in SetOps THEN "idle" ELSE AfterResolve(opname)

Init ==
    /\ OFFSET = Empty
    /\ writer = 0
    /\ readers = {}
    /\ pc = [t \in Threads |-> "idle"]
    /\ op = [t \in Threads |-> "none"]
    /\ o = [t \in Threads |-> UTC]
    /\ errs = [t \in Threads |-> <<>>]
    /\ call = [t \in Threads |-> NoCall]
    /\ last = NoLast
    /\ prev = [t \in Threads |-> NoPrev]
    /\ calls = 0
    /\ src = "none"
    /\ stored = Empty

(***************************************************************************)
(* get_global_offset, in two steps: OFFSET.get() with o.read() and the     *)
(* clone of the hours; then the clone of the minutes and seconds and the   *)
(* release of the read guard.  o.read() waits while a writer holds the     *)
(* lock.  The first step is also the first one of get_utc_offset.          *)
(***************************************************************************)
\* a read lock that is granted even while a writer holds the lock
ReadLockOk_always(t) == TRUE

\* RwLock::read is granted while no writer holds the lock
ReadLockOk(t) == writer = 0

\* a write lock that is granted while readers hold the lock
TryWriteOk_ignoring_readers(t) == writer = 0

\* RwLock::try_write is granted while nobody holds the lock
TryWriteOk(t) == writer = 0 /\ readers = {}

\* a hit after which get_utc_offset goes on to construct_offset
AfterHit_fallthrough(opname) ==
    IF opname = "get_utc_offset" THEN "native" ELSE AfterResolve(opname)

\* get_utc_offset after get_global_offset: on a hit it returns the clone,
\* on a miss it goes on to construct_offset
AfterHit(opname) == AfterResolve(opname)

\* a get_global_offset that resolves the offset itself on a miss
AfterMiss_resolving(opname) == "native"

AfterMiss(opname) == IF opname = "get_global_offset" THEN "idle" ELSE "native"

Get(t, opname) ==
    /\ Idle(t)
    /\ UNCHANGED <<OFFSET, writer, src, stored>>
    /\ IF OFFSET.init
       THEN /\ ReadLockOk(t)
            /\ readers' = readers \cup {t}
            /\ Step(t, opname, TRUE, "clone", [UTC EXCEPT !.h = OFFSET.v.h],
                    <<>>, NewCall(t), NoRes)
       ELSE /\ UNCHANGED readers
            /\ Step(t, opname, TRUE, AfterMiss(opname), UTC, <<>>, NewCall(t),
                    Res(FALSE, Uninitialized, UTC, <<>>))

get_global_offset(t) == Get(t, "get_global_offset")

get_utc_offset(t) == Get(t, "get_utc_offset")

get_local_timestamp_rfc3339(t) == Get(t, "get_local_timestamp_rfc3339")

\* the clone is complete and the guard dropped
Clone(t) ==
    LET v == Off(o[t].h, OFFSET.v.m, OFFSET.v.s)
    IN /\ pc[t] = "clone"
       /\ readers' = readers \ {t}
       /\ UNCHANGED <<OFFSET, writer, src, stored>>
       /\ Step(t, op[t], FALSE, AfterHit(op[t]), v, errs[t], call[t],
               Res(TRUE, NoError, v, <<>>))

(***************************************************************************)
(* get_utc_offset on a miss: construct_offset() is the native query and,   *)
(* when that fails, the command; then try_set_global_offset(o).            *)
(***************************************************************************)
\* construct_offset: a command that runs whatever the native query answered
AfterNative_always_command(ok) == "command"

\* construct_offset: or_else runs offset_from_process only on an Err, and
\* drops that Err
AfterNative(ok) == IF ok THEN "get_or_init" ELSE "command"

Native(t, n) ==
    /\ pc[t] = "native"
    /\ UNCHANGED <<OFFSET, writer, readers, src, stored>>
    /\ LET c == [call[t] EXCEPT
                   !.native = @ + 1,
                   !.nativeErr = IF n.ok THEN NoError ELSE IndeterminateOffset,
                   !.resolved = IF n.ok THEN n.off ELSE UTC]
       IN IF AfterNative(n.ok) = "get_or_init"
          THEN Step(t, op[t], FALSE, "get_or_init",
                    MatchConstruct(PairResult(TRUE, n.off, NoError), errs[t]).o,
                    errs[t], c, NoRes)
          ELSE Step(t, op[t], FALSE, "command", o[t], errs[t], c, NoRes)

Command(t, a) ==
    /\ pc[t] = "command"
    /\ UNCHANGED <<OFFSET, writer, readers, src, stored>>
    /\ LET r == offset_from_process(a)
           mc == MatchConstruct(r, errs[t])
           c == [call[t] EXCEPT !.command = @ + 1, !.cmdErr = r.err,
                                !.resolved = IF r.ok THEN r.off ELSE UTC]
       IN Step(t, op[t], FALSE, "get_or_init", mc.o, mc.errs, c, NoRes)

(***************************************************************************)
(* try_set_global_offset(o), in three steps: OFFSET.get_or_init; try_write *)
(* with the store of the hours; then the store of the minutes and seconds  *)
(* and the release of the write guard.                                     *)
(***************************************************************************)
Origin(opname) == IF opname \in SetOps THEN "explicit" ELSE "resolved"

\* a step that looks the cell up and does not initialize it
GetOrInitStep_without_init(t, opname, starts, off, es, c) ==
    /\ UNCHANGED <<OFFSET, src, stored, writer, readers>>
    /\ Step(t, opname, starts, "try_write", off, es, c, NoRes)

\* OFFSET.get_or_init(|| RwLock::new(off)) as a step of the function opname
GetOrInitStep(t, opname, starts, off, es, c) ==
    /\ OFFSET' = IF OFFSET.init THEN OFFSET ELSE Cell(TRUE, off)
    /\ src' = IF OFFSET.init THEN src ELSE Origin(opname)
    /\ stored' = IF OFFSET.init THEN stored ELSE Cell(TRUE, off)
    /\ UNCHANGED <<writer, readers>>
    /\ Step(t, opname, starts, "try_write", off, es,
            [c EXCEPT !.wrote = @ \/ ~OFFSET.init], NoRes)

\* a try_set_* call that fails before try_set_global_offset, and the
\* formatter, touch nothing
Pure(t, opname, c, res) ==
    /\ UNCHANGED <<OFFSET, writer, readers, src, stored>>
    /\ Step(t, opname, TRUE, "idle", UTC, <<>>, c, res)

GetOrInit(t) ==
    /\ pc[t] = "get_or_init"
    /\ GetOrInitStep(t, op[t], FALSE, o[t], errs[t], call[t])

try_set_global_offset(t, off) ==
    /\ Idle(t)
    /\ GetOrInitStep(t, "try_set_global_offset", TRUE, off, <<>>,
                     [NewCall(t) EXCEPT !.arg = off])

try_set_global_offset_from_str(t, input) ==
    LET r == ParseOffset(trim_new_lines(input.str))
        c == [NewCall(t) EXCEPT !.wf = input.wf, !.den = input.den,
                                !.arg = r.off]
    IN /\ Idle(t)
       /\ IF r.ok
          THEN GetOrInitStep(t, "try_set_global_offset_from_str", TRUE, r.off,
                             <<>>, c)
          ELSE Pure(t, "try_set_global_offset_from_str", c,
                    Res(FALSE, InvalidOffsetString, UTC, <<>>))

try_set_global_offset_from_pair(t, offset_hours, offset_minutes) ==
    LET r == from_offset_pair(offset_hours, offset_minutes)
        c == [NewCall(t) EXCEPT !.h = offset_hours, !.m = offset_minutes,
                                !.arg = r.off]
    IN /\ Idle(t)
       /\ IF r.ok
          THEN GetOrInitStep(t, "try_set_global_offset_from_pair", TRUE, r.off,
                             <<>>, c)
          ELSE Pure(t, "try_set_global_offset_from_pair", c,
                    Res(FALSE, r.err, UTC, <<>>))

\* get_utc_offset when try_set_global_offset failed, without errs.push(e)
OnWriteLock_dropped(es) == es

\* get_utc_offset when try_set_global_offset failed: errs.push(e)
OnWriteLock(es) == Append(es, WriteLock)

TryWrite(t) ==
    LET c == [call[t] EXCEPT !.busy = writer # 0 \/ readers # {}]
    IN /\ pc[t] = "try_write"
       /\ UNCHANGED <<readers, stored>>
       /\ IF TryWriteOk(t)
          THEN /\ writer' = t
               /\ OFFSET' = [OFFSET EXCEPT !.v.h = o[t].h]
               /\ src' = Origin(op[t])
               /\ Step(t, op[t], FALSE, "store", o[t], errs[t],
                       [c EXCEPT !.wrote = TRUE], NoRes)
          ELSE /\ UNCHANGED <<writer, OFFSET, src>>
               /\ IF op[t] \in SetOps
                  THEN Step(t, op[t], FALSE, "idle", o[t], errs[t], c,
                            Res(FALSE, WriteLock, UTC, <<>>))
                  ELSE Step(t, op[t], FALSE, AfterResolve(op[t]), o[t],
                            OnWriteLock(errs[t]), c,
                            Res(TRUE, NoError, o[t], <<>>))

Store(t) ==
    /\ pc[t] = "store"
    /\ OFFSET' = [OFFSET EXCEPT !.v = o[t]]
    /\ writer' = 0
    /\ stored' = Cell(TRUE, o[t])
    /\ UNCHANGED <<readers, src>>
    /\ Step(t, op[t], FALSE, AfterSet(op[t]), o[t], errs[t], call[t],
            IF op[t] \in SetOps THEN Res(TRUE, NoError, UTC, <<>>)
            ELSE Res(TRUE, NoError, o[t], <<>>))

(***************************************************************************)
(* The formatter at the instant dt_now: the last step of                   *)
(* get_local_timestamp_rfc3339, on the offset get_utc_offset returned, and *)
(* the public function on its own.                                         *)
(***************************************************************************)
\* a get_local_timestamp_rfc3339 that fails with the first error that
\* get_utc_offset collected
Format_failing_on_errs(t, dt_now) ==
    /\ pc[t] = "format"
    /\ UNCHANGED <<OFFSET, writer, readers, src, stored>>
    /\ LET r == get_local_timestamp_from_offset_rfc3339(o[t], dt_now)
           e == IF errs[t] # <<>> THEN errs[t][1] ELSE r.err
       IN Step(t, op[t], FALSE, "idle", o[t], errs[t],
               [call[t] EXCEPT !.dt = dt_now],
               Res(r.ok /\ errs[t] = <<>>, e, o[t], r.str))

Format(t, dt_now) ==
    /\ pc[t] = "format"
    /\ UNCHANGED <<OFFSET, writer, readers, src, stored>>
    /\ LET r == get_local_timestamp_from_offset_rfc3339(o[t], dt_now)
       IN Step(t, op[t], FALSE, "idle", o[t], errs[t],
               [call[t] EXCEPT !.dt = dt_now], Res(r.ok, r.err, o[t], r.str))

CallFormat(t, utc_offset, dt_now) ==
    LET r == get_local_timestamp_from_offset_rfc3339(utc_offset, dt_now)
    IN /\ Idle(t)
       /\ Pure(t, "get_local_timestamp_from_offset_rfc3339",
               [NewCall(t) EXCEPT !.arg = utc_offset, !.dt = dt_now],
               Res(r.ok, r.err, utc_offset, r.str))

(***************************************************************************)
(* The concurrent specification: NumThreads threads calling                *)
(* get_global_offset, try_set_global_offset and get_utc_offset, the three  *)
(* functions that touch the cache (the others validate or format and       *)
(* delegate to these).                                                     *)
(***************************************************************************)
Next ==
    \/ Forget
    \/ \E t \in Threads :
        \/ get_global_offset(t)
        \/ \E off \in SetOffsets : try_set_global_offset(t, off)
        \/ get_utc_offset(t)
        \/ Clone(t)
        \/ \E n \in NativeAnswers : Native(t, n)
        \/ \E a \in CmdAnswers : Command(t, a)
        \/ GetOrInit(t)
        \/ TryWrite(t)
        \/ Store(t)

Spec == Init /\ [][Next]_vars

(***************************************************************************)
(* The sequential specification: one thread calling every public function  *)
(* with the wide input sets.                                               *)
(***************************************************************************)
NextSeq ==
    \/ Forget
    \/ get_global_offset(1)
    \/ \E off \in SetOffsetsSeq : try_set_global_offset(1, off)
    \/ \E input \in StrInputsSeq : try_set_global_offset_from_str(1, input)
    \/ \E p \in PairInputsSeq : try_set_global_offset_from_pair(1, p[1], p[2])
    \/ get_utc_offset(1)
    \/ get_local_timestamp_rfc3339(1)
    \/ \E off \in SetOffsetsSeq, dt_now \in NowsSeq : CallFormat(1, off, dt_now)
    \/ Clone(1)
    \/ \E n \in NativeAnswersSeq : Native(1, n)
    \/ \E a \in CmdAnswersSeq : Command(1, a)
    \/ GetOrInit(1)
    \/ TryWrite(1)
    \/ Store(1)
    \/ \E dt_now \in NowsSeq : Format(1, dt_now)

SpecSeq == Init /\ [][NextSeq]_vars

(***************************************************************************)
(* The concurrent timestamp specification: NumThreads threads calling      *)
(* get_local_timestamp_rfc3339, each resolving the offset on a miss.       *)
(***************************************************************************)
NextTs ==
    \/ Forget
    \/ \E t \in Threads :
        \/ get_local_timestamp_rfc3339(t)
        \/ Clone(t)
        \/ \E n \in NativeAnswers : Native(t, n)
        \/ \E a \in CmdAnswers : Command(t, a)
        \/ GetOrInit(t)
        \/ TryWrite(t)
        \/ Store(t)
        \/ \E dt_now \in NowsTs : Format(t, dt_now)

SpecTs == Init /\ [][NextTs]_vars

(***************************************************************************)
(* Properties.  last is the record of the call that returned in the step   *)
(* leading to the state: last.at0 is the cache when the call started,      *)
(* last.now the cache at its return, last.before the same thread's call    *)
(* before it.                                                              *)
(***************************************************************************)

\* the text sign+HH:MM of a pair (hours, minutes)
PairText(h, m) ==
    <<IF h < 0 THEN "-" ELSE "+">> \o Pad2(Abs(h)) \o <<":">> \o Pad2(m)

ValidPair(h, m) == h \in -12..14 /\ m \in 0..59

\* C1: for every pair with hours in [-12,14] and minutes in [0,59],
\* try_set_global_offset_from_pair succeeds without contention, and the
\* timestamp the next get_local_timestamp_rfc3339 returns contains the text
\* sign+HH:MM of that pair.  (Stated for the calls that return a timestamp;
\* the instants at the ends of the representable range are left aside.)
C1_PairRendered ==
    /\ (last.op = "try_set_global_offset_from_pair" /\ ValidPair(last.h, last.m))
           => last.ok
    /\ (/\ last.op = "get_local_timestamp_rfc3339"
        /\ last.before.op = "try_set_global_offset_from_pair"
        /\ last.ok)
           => Contains(last.out, PairText(last.before.h, last.before.m))

\* C2: for every pair with hours outside [-12,14] or minutes outside [0,59],
\* try_set_global_offset_from_pair returns InvalidOffsetHours(hours) when the
\* hours are out of range and InvalidOffsetMinutes(minutes) otherwise, and
\* the cache is as it was before the call.
C2_InvalidPairRejected ==
    (last.op = "try_set_global_offset_from_pair" /\ ~ValidPair(last.h, last.m))
        => /\ ~last.ok
           /\ last.err = IF last.h \notin -12..14
                         THEN InvalidOffsetHours(last.h)
                         ELSE InvalidOffsetMinutes(last.m)
           /\ ~last.wrote
           /\ last.now = last.at0
           /\ OFFSET = last.at0

C2_Witness ==
    /\ last.op = "try_set_global_offset_from_pair"
    /\ last.err = InvalidOffsetMinutes(60)
    /\ last.at0 = Cell(TRUE, Off(5, 30, 0))
    /\ OFFSET = Cell(TRUE, Off(5, 30, 0))

\* C3: in every reachable state the cache is uninitialized or holds an
\* offset with hours in [-12,14] and minutes in [0,59].
C3_CacheInRange ==
    OFFSET.init => OFFSET.v.h \in -12..14 /\ Abs(OFFSET.v.m) \in 0..59

\* C4: once the cache is populated, its value changes only by an explicit
\* set call; a value stored by an explicit set is never replaced by a value
\* a concurrently running get_utc_offset resolved from the environment.
C4_OnlyExplicitSetsReplace ==
    [][(OFFSET.init /\ OFFSET'.v # OFFSET.v) => src' = "explicit"]_vars

\* C5: a reader and a writer never hold the lock at the same time, and every
\* offset a get_global_offset returns is, hours and minutes together, the
\* offset the last complete write stored, which is one of the offsets the
\* write calls are given.
WrittenOffsets ==
    SetOffsets \cup {n.off : n \in NativeAnswers} \cup {UTC}

C5_ReadsWhole ==
    /\ ~(writer # 0 /\ readers # {})
    /\ (last.op = "get_global_offset" /\ last.ok)
           => last.off = stored.v /\ last.off \in WrittenOffsets

C5_Witness ==
    /\ last.op = "get_global_offset"
    /\ last.ok
    /\ \E u \in Threads : pc[u] = "try_write" /\ o[u] # last.off

\* C6: when the cache holds a value as get_utc_offset starts, the call
\* returns that value with an empty error list, runs neither the native
\* query nor the command, and does not write to the cache.
C6_HitReturnsCache ==
    (last.op = "get_utc_offset" /\ last.at0.init)
        => /\ last.ok
           /\ last.errs = <<>>
           /\ last.native = 0
           /\ last.command = 0
           /\ ~last.wrote
           /\ ~last.others => (last.off = last.at0.v /\ last.now = last.at0)

C6_Witness ==
    /\ last.op = "get_utc_offset"
    /\ last.at0 = Cell(TRUE, Off(5, 30, 0))
    /\ last.off = Off(5, 30, 0)
    /\ \E u \in Threads : pc[u] = "try_write"

\* C7: two successive calls of get_utc_offset by a thread, with no explicit
\* set call running or started from the start of the first to the return of
\* the second, return the same offset, and the second is a cache hit with
\* an empty error list.
C7_SameOffsetTwice ==
    (/\ last.op = "get_utc_offset"
     /\ last.before.op = "get_utc_offset"
     /\ last.before.clean)
        => /\ last.off = last.before.off
           /\ last.at0.init
           /\ last.errs = <<>>

\* C8: get_utc_offset always returns an offset; when the cache is empty and
\* both the native query and the command fail, the offset is UTC and the
\* error list starts with the command's error (launch or parse).
C8_FallbackToUtc ==
    last.op = "get_utc_offset"
        => /\ last.ok
           /\ (~last.at0.init /\ last.command = 1 /\ last.cmdErr # NoError)
                  => /\ last.off = UTC
                     /\ last.native = 1
                     /\ last.cmdErr \in {TimeCommand, ParseError}
                     /\ Len(last.errs) >= 1
                     /\ last.errs[1] = last.cmdErr

C8_Witness ==
    /\ last.op = "get_utc_offset"
    /\ last.cmdErr = ParseError
    /\ last.off = UTC
    /\ last.errs = <<ParseError, WriteLock>>

\* C9: try_set_global_offset never waits at try_write; it returns WriteLock
\* exactly when another thread holds the lock, as reader or writer, at the
\* attempt, and otherwise stores the given offset whole and returns Ok, so
\* that the cache then holds that offset.
C9_TrySetNeverWaits ==
    /\ \A t \in Threads : pc[t] = "try_write" => ENABLED TryWrite(t)
    /\ last.op = "try_set_global_offset"
           => /\ last.ok <=> ~last.busy
              /\ ~last.ok => last.err = WriteLock
              /\ last.ok => (last.now = Cell(TRUE, last.arg) /\ stored = last.now)

C9_Witness ==
    /\ last.op = "try_set_global_offset"
    /\ last.err = WriteLock
    /\ readers # {}

\* C10: for every input [sign]HH[:]MM, with or without surrounding
\* whitespace and trailing \n or \r\n, try_set_global_offset_from_str
\* succeeds without contention and the cache then holds the offset the
\* string denotes.
C10_StringStored ==
    (last.op = "try_set_global_offset_from_str" /\ last.wf)
        => /\ last.ok
           /\ last.now = Cell(TRUE, last.den)
           /\ OFFSET = Cell(TRUE, last.den)

C10_Witness ==
    /\ last.op = "try_set_global_offset_from_str"
    /\ last.wf
    /\ last.den = Off(-9, -30, 0)
    /\ last.at0 = Cell(TRUE, Off(5, 30, 0))
    /\ OFFSET = Cell(TRUE, Off(-9, -30, 0))

\* C11: get_global_offset returns Uninitialized exactly when the cache is
\* not initialized, which is as long as no try_set_* call and no
\* get_utc_offset miss has reached get_or_init; an initialized cache never
\* becomes uninitialized again, and get_global_offset then returns Ok.
C11_InitializedForGood ==
    [][/\ OFFSET.init => OFFSET'.init
       /\ OFFSET'.init <=> src' \in {"explicit", "resolved"}
       /\ last'.op = "get_global_offset"
              => /\ last'.ok <=> last'.at0.init
                 /\ ~last'.ok => last'.err = Uninitialized]_vars

C11_Witness ==
    /\ last.op = "get_global_offset"
    /\ last.err = Uninitialized
    /\ ~OFFSET.init
    /\ \E u \in Threads : pc[u] = "get_or_init"

\* the error list of a get_utc_offset call, from what the call met: the
\* command's error, then WriteLock when the lock was held at try_write
CollectedErrors(c) ==
    (IF c.cmdErr # NoError THEN <<c.cmdErr>> ELSE <<>>)
        \o (IF c.busy THEN <<WriteLock>> ELSE <<>>)

\* C12: get_local_timestamp_rfc3339 fails exactly when the formatter fails
\* on the resolved offset, with the formatter's error; the errors
\* get_utc_offset collected never make it fail, and on success they are
\* returned as get_utc_offset produced them, in the same order.
C12_OnlyFormatterFails ==
    last.op = "get_local_timestamp_rfc3339"
        => /\ last.ok <=>
                get_local_timestamp_from_offset_rfc3339(last.off, last.dt).ok
           /\ ~last.ok => last.err = DatetimeOverflow
           /\ last.ok => last.errs = CollectedErrors(last)

C12_Witness ==
    /\ last.op = "get_local_timestamp_rfc3339"
    /\ last.ok
    /\ last.errs = <<ParseError, WriteLock>>
    /\ last.out # <<>>

\* C13: a string that is not [sign]HH[:]MM after trimming makes
\* try_set_global_offset_from_str return InvalidOffsetString, and the cache
\* is as it was before the call, uninitialized or holding the same offset.
C13_MalformedStringRejected ==
    (last.op = "try_set_global_offset_from_str" /\ ~last.wf)
        => /\ ~last.ok
           /\ last.err = InvalidOffsetString
           /\ ~last.wrote
           /\ last.now = last.at0
           /\ OFFSET = last.at0

C13_Witness ==
    /\ last.op = "try_set_global_offset_from_str"
    /\ ~last.wf
    /\ last.err = InvalidOffsetString
    /\ last.at0 = Cell(TRUE, Off(-8, 0, 0))
    /\ OFFSET = Cell(TRUE, Off(-8, 0, 0))

\* C14: every environmental failure met during a get_utc_offset call on a
\* miss is an entry of the returned error list, in the order of the steps:
\* the failure of the native query first, then the failure of the command.
C14_EveryFailureCollected ==
    (last.op = "get_utc_offset" /\ last.nativeErr # NoError)
        => /\ Len(last.errs) >= 1
           /\ last.errs[1] = last.nativeErr
           /\ last.cmdErr # NoError
                  => (Len(last.errs) >= 2 /\ last.errs[2] = last.cmdErr)

\* C15: on a miss get_utc_offset tries to store the offset it resolved; when
\* the lock is held at try_write it appends WriteLock after the
\* environmental error, if any, and still returns the offset it resolved,
\* whatever the cache holds; when the lock is free the cache holds that
\* offset at the return.
C15_WriteLockIsSoft ==
    (last.op = "get_utc_offset" /\ ~last.at0.init)
        => /\ last.ok
           /\ last.off = last.resolved
           /\ last.busy
                  => last.errs =
                         (IF last.cmdErr # NoError THEN <<last.cmdErr>> ELSE <<>>)
                             \o <<WriteLock>>
           /\ ~last.busy
                  => (WriteLock \notin {last.errs[i] : i \in 1..Len(last.errs)}
                      /\ last.now = Cell(TRUE, last.off))

C15_Witness ==
    /\ last.op = "get_utc_offset"
    /\ last.busy
    /\ last.errs = <<WriteLock>>
    /\ last.off = Off(1, 0, 0)
    /\ OFFSET.init
    /\ OFFSET.v # last.off

\* C16: when a get_utc_offset call returns, whatever its error list, the
\* cache is initialized, and a get_global_offset that follows returns Ok.
C16_ResolverInitializes ==
    /\ last.op = "get_utc_offset" => (last.now.init /\ OFFSET.init)
    /\ (last.op = "get_global_offset" /\ last.before.op = "get_utc_offset")
           => (last.ok /\ last.err # Uninitialized)

C16_Witness ==
    /\ last.op = "get_utc_offset"
    /\ ~last.at0.init
    /\ last.errs = <<TimeCommand, WriteLock>>
    /\ OFFSET.init

\* C17: within one get_utc_offset call the native query runs at most once
\* and only on a miss, the command runs at most once and only after the
\* native query has failed, and nothing is tried again after a failure.
FallbackOrder(c) ==
    /\ c.native <= 1
    /\ c.command <= 1
    /\ c.native = 1 => ~c.at0.init
    /\ c.command = 1 => (c.native = 1 /\ c.nativeErr # NoError)
    /\ c.nativeErr # NoError => c.native = 1
    /\ c.cmdErr # NoError => c.command = 1

C17_FallbackOnceInOrder ==
    /\ \A t \in Threads : FallbackOrder(call[t])
    /\ FallbackOrder(last)
    /\ \A t \in Threads :
           /\ pc[t] = "native" => call[t].native = 0
           /\ pc[t] = "command" => call[t].command = 0

C17_Witness ==
    /\ last.op = "get_utc_offset"
    /\ last.native = 1
    /\ last.command = 1
    /\ last.cmdErr = TimeCommand
    /\ last.errs = <<TimeCommand>>

\* the minutes from the instant a to the instant b, seconds left aside
MinuteOfDay(dt) == 60 * dt.hh + dt.mi

MinutesBetween(a, b) ==
    1440 * (DaysFromCivil(b.y, b.mo, b.d) - DaysFromCivil(a.y, a.mo, a.d))
        + MinuteOfDay(b) - MinuteOfDay(a)

\* the date and time that a timestamp [-]YYYY-MM-DDThh:mm:ss... shows
Rendered(out) ==
    LET k == IF out[1] = "-" THEN 1 ELSE 0
        y == 100 * TwoDigitsVal(out, k + 1) + TwoDigitsVal(out, k + 3)
    IN DateTime(IF k = 1 THEN -y ELSE y, TwoDigitsVal(out, k + 6),
                TwoDigitsVal(out, k + 9), TwoDigitsVal(out, k + 12),
                TwoDigitsVal(out, k + 15), TwoDigitsVal(out, k + 18))

IsCivil(dt) ==
    /\ dt.y \in -9999..9999
    /\ dt.mo \in 1..12
    /\ dt.d \in 1..31
    /\ dt.hh \in 0..23
    /\ dt.mi \in 0..59
    /\ dt.ss \in 0..59

\* the instant dt shifted by the offset's total minutes is representable
ShiftInRange(dt, off) ==
    LET day == DaysFromCivil(dt.y, dt.mo, dt.d)
                   + (MinuteOfDay(dt) + 60 * off.h + off.m) \div 1440
    IN /\ day >= DaysFromCivil(-9999, 1, 1)
       /\ day <= DaysFromCivil(9999, 12, 31)

\* C18: the date and time get_local_timestamp_from_offset_rfc3339 renders
\* are the UTC instant shifted by the offset's total minutes, 60*hours +
\* minutes with their signs; for the zero offset they are the UTC instant.
C18_ShiftedByTotalMinutes ==
    (last.op = "get_local_timestamp_from_offset_rfc3339" /\ last.ok)
        => /\ IsCivil(Rendered(last.out))
           /\ MinutesBetween(last.dt, Rendered(last.out))
                  = 60 * last.arg.h + last.arg.m
           /\ Rendered(last.out).ss = last.dt.ss
           /\ last.arg = UTC => Rendered(last.out) = last.dt

C18_Witness ==
    /\ last.op = "get_local_timestamp_from_offset_rfc3339"
    /\ last.arg = Off(5, 30, 0)
    /\ last.dt = DateTime(2023, 12, 31, 23, 59, 59)
    /\ last.ok
    /\ Rendered(last.out) = DateTime(2024, 1, 1, 5, 29, 59)

\* C19: get_local_timestamp_from_offset_rfc3339 returns DatetimeOverflow
\* and no string exactly when the instant shifted by the offset's total
\* minutes is not representable; otherwise it returns the timestamp of a
\* representable date, never a wrapped or truncated one.
C19_OverflowIsAnError ==
    last.op = "get_local_timestamp_from_offset_rfc3339"
        => /\ last.ok <=> ShiftInRange(last.dt, last.arg)
           /\ ~last.ok => (last.err = DatetimeOverflow /\ last.out = <<>>)
           /\ last.ok => (last.err # DatetimeOverflow
                          /\ last.out # <<>>
                          /\ IsCivil(Rendered(last.out)))

C19_Witness ==
    /\ last.op = "get_local_timestamp_from_offset_rfc3339"
    /\ last.arg = Off(-8, 0, 0)
    /\ last.dt = DateTime(-9999, 1, 1, 0, 10, 0)
    /\ last.err = DatetimeOverflow
    /\ last.out = <<>>

\* C20: a try_set_global_offset call that returns WriteLock has not changed
\* the cache: the call itself wrote nothing and, when no other thread
\* changed the cache meanwhile, the cache at the return is the cache at the
\* start, uninitialized or holding the same offset.
C20_FailedSetHasNoEffect ==
    (last.op = "try_set_global_offset" /\ last.err = WriteLock)
        => /\ ~last.wrote
           /\ ~last.others => last.now = last.at0

====
